---- MODULE Spec2Model ----
(***************************************************************************)
(* Model of the operator SEQUENCER_OT_extend_to_next_strip of the add-on   *)
(* "VSE Extend Strips to Next" (src/__init__.py).                          *)
(*                                                                         *)
(* A strip is an identity (a number of Strips) with a channel, a           *)
(* frame_start and a frame_final_end.  The host owns the strips; execute   *)
(* reads context.sequences and context.selected_sequences and assigns      *)
(* frame_final_end of selected strips, which is modelled as the assignment *)
(* it is written as.  One run of execute is modelled at the granularity of *)
(* its for loop: ExecuteNoSelection and ExecuteStart (lines 24-52), one    *)
(* action per branch of the loop body (lines 55-149), Finish (lines        *)
(* 151-161).                                                               *)
(*                                                                         *)
(* Spec       a run, and further runs on the timeline the run left         *)
(* SpecUndo   a run, undone, and the run made again: on the same input, or *)
(*            with the strips that are not in the collection deselected    *)
(* SpecOrder  a run, undone, and the loop run in any order of the          *)
(*            selection                                                    *)
(***************************************************************************)
EXTENDS Integers, Sequences, FiniteSets, TLC

\* ------------------------------------------------------------------ bounds
NumStrips == 3

\* max_gap = 5000 (line 99)
max_gap == 5000

Strips == 1..NumStrips
Channels == {1, 2}
FarFrame == max_gap + 3

\* The (frame_start, frame_final_end) pairs a strip is given: one-frame strips
\* at frames 0, 2, 3 and FarFrame, and a strip whose end lies before its start
\* (lines 117-122 provide for a target end that lies before the start).  Frames
\* are integers.  Between these strips the gaps of 0, 1, 2, max_gap - 1,
\* max_gap and max_gap + 2 frames occur; two strips of the same shape in one
\* channel overlap.
Shapes == {<<0, 0>>, <<2, 2>>, <<3, 3>>, <<2, 0>>, <<FarFrame, FarFrame>>}

VARIABLES
    channel,                    \* strip -> s.channel
    frame_start,                \* strip -> s.frame_start
    frame_final_end,            \* strip -> s.frame_final_end
    sequences,                  \* context.sequences (a list of strips)
    selected_sequences,         \* context.selected_sequences (a list of strips)
    pc,                         \* "idle", "loop", "done": position in execute
    sorted_selected_strips,     \* line 40
    all_strips_sorted_by_time,  \* lines 47-48
    pos,                        \* position of the for loop of line 55 (1-based)
    processed_count,            \* line 52
    report,                     \* the message of self.report
    result,                     \* the returned set: "FINISHED" or "CANCELLED"
    phase,                      \* which invocation this is: "first", "again",
                                \* "redo", "without", "anyorder"
    end0,                       \* history: frame_final_end when the run began
    extended,                   \* history: strips that passed lines 127-134
    first_end,                  \* history: frame_final_end after the first run
    first_count                 \* history: processed_count of the first run

vars == <<channel, frame_start, frame_final_end, sequences, selected_sequences,
          pc, sorted_selected_strips, all_strips_sorted_by_time, pos,
          processed_count, report, result, phase, end0, extended, first_end,
          first_count>>

\* ---------------------------------------------------------- list helpers
Range(seq) == {seq[k] : k \in 1..Len(seq)}

\* list.index(x) searched from position k on: the first position of x, 0
\* standing for ValueError
RECURSIVE IndexFrom(_, _, _)
IndexFrom(seq, x, k) ==
    IF k > Len(seq) THEN 0
    ELSE IF seq[k] = x THEN k
    ELSE IndexFrom(seq, x, k + 1)

\* list.index(x)
Index(seq, x) == IndexFrom(seq, x, 1)

\* The strips of a set as a list in ascending identity order
RECURSIVE SetToSeq(_)
SetToSeq(S) ==
    IF S = {} THEN <<>>
    ELSE LET m == CHOOSE x \in S : \A y \in S : x <= y
         IN <<m>> \o SetToSeq(S \ {m})

\* key=lambda s: (s.channel, s.frame_start): the key of every strip
KeyChannelStart(ch, fs) == [s \in DOMAIN ch |-> <<ch[s], fs[s]>>]

\* key=lambda s: s.frame_start: the key of every strip
KeyStart(ch, fs) == [s \in DOMAIN fs |-> <<fs[s]>>]

\* Python's a < b for two tuples of numbers of the same length
RECURSIVE TupleLess(_, _)
TupleLess(a, b) ==
    IF a = <<>> THEN FALSE
    ELSE IF Head(a) # Head(b) THEN Head(a) < Head(b)
    ELSE TupleLess(Tail(a), Tail(b))

\* Python's sort is stable: x goes after every element whose key is not
\* greater than its own.
RECURSIVE InsertSorted(_, _, _)
InsertSorted(key, seq, x) ==
    IF seq = <<>> THEN <<x>>
    ELSE IF TupleLess(key[x], key[Head(seq)])
         THEN <<x>> \o seq
         ELSE <<Head(seq)>> \o InsertSorted(key, Tail(seq), x)

\* sorted(seq, key=...) and seq.sort(key=...)
RECURSIVE StableSort(_, _)
StableSort(key, seq) ==
    IF seq = <<>> THEN <<>>
    ELSE InsertSorted(key, StableSort(key, SubSeq(seq, 1, Len(seq) - 1)),
                      seq[Len(seq)])

\* The permutations of a list
Perms(seq) ==
    {p \in [1..Len(seq) -> Range(seq)] :
        \A i, j \in 1..Len(seq) : i # j => p[i] # p[j]}

\* seq is in ascending order of the key
IsSorted(key, seq) ==
    \A i, j \in 1..Len(seq) : i < j => ~TupleLess(key[seq[j]], key[seq[i]])

\* Mutant: a sort that is not stable may leave equal keys in any order
UnstablySortedByTime(ch, fs, seq) ==
    {p \in Perms(seq) : IsSorted(KeyStart(ch, fs), p)}

\* lines 47-48: list.sort has one outcome, the stable sort by frame_start
SortedByTime(ch, fs, seq) == {StableSort(KeyStart(ch, fs), seq)}

\* line 40: sorted has one outcome, the stable sort by (channel, frame_start)
SortedByChannelTime(ch, fs, seq) == {StableSort(KeyChannelStart(ch, fs), seq)}

\* ------------------------------------------------------- the loop's terms
\* int(round(x)) for x = h / 2: Python 3 rounds a tie to the even integer
PyRound(h) ==
    IF h % 2 = 0 THEN h \div 2
    ELSE LET k == (h - 1) \div 2 IN IF k % 2 = 0 THEN k ELSE k + 1

\* Mutant: the scan does not stop at the first match (no break at line 82)
RECURSIVE FindLast(_, _, _, _, _, _)
FindLast(ch, fs, fe, all, cur, idx) ==
    IF idx + 1 > Len(all) THEN 0
    ELSE LET later == FindLast(ch, fs, fe, all, cur, idx + 1)
         IN IF later # 0 THEN later
            ELSE IF ch[all[idx + 1]] = ch[cur] /\ fs[all[idx + 1]] > fe[cur]
                 THEN idx + 1
                 ELSE 0

\* Mutant: the scan compares the candidate's end, not its start, with the
\* current strip's end
RECURSIVE FindNextByEnd(_, _, _, _, _, _)
FindNextByEnd(ch, fs, fe, all, cur, idx) ==
    IF idx + 1 > Len(all) THEN 0
    ELSE IF ch[all[idx + 1]] = ch[cur] /\ fe[all[idx + 1]] > fe[cur]
         THEN idx + 1
         ELSE FindNextByEnd(ch, fs, fe, all, cur, idx + 1)

\* lines 70-82: the scan of positions idx + 1, idx + 2, ... of all for the
\* first strip that is in cur's channel and starts after cur's current end;
\* its position, or 0 when the list ends without one (next_strip is None)
RECURSIVE FindNext(_, _, _, _, _, _)
FindNext(ch, fs, fe, all, cur, idx) ==
    IF idx + 1 > Len(all) THEN 0
    ELSE IF ch[all[idx + 1]] = ch[cur] /\ fs[all[idx + 1]] > fe[cur]
         THEN idx + 1
         ELSE FindNext(ch, fs, fe, all, cur, idx + 1)

\* Mutant: the gap counted from the end frame itself
GapFramesOffByOne(fs, fe, cur, nxt) == fs[nxt] - fe[cur]

\* line 92
GapFrames(fs, fe, cur, nxt) == fs[nxt] - (fe[cur] + 1)

\* Mutant: no upper limit on the gap
GapPositive(g) == g > 0

\* Mutant: a gap of 0 frames accepted
GapInRangeOrTouching(g) == g >= 0 /\ g <= max_gap

\* line 103
GapInRange(g) == g > 0 /\ g <= max_gap

\* Mutant: the target is the next strip's start itself
TargetEndNoMinusOne(fs, nxt) == PyRound(2 * fs[nxt])

\* lines 109-115
TargetEnd(fs, nxt) == PyRound(2 * (fs[nxt] - 1))

\* line 118
NewDuration(fs, cur, target) == target - fs[cur] + 1

\* ------------------------------------------------------------------- Init
\* The host's timeline.  Every strip has a channel and one of the Shapes.
\* context.sequences lists the strips in identity order; the selection is any
\* subset, in the same order.  The last strip may be selected without being in
\* context.sequences (the case lines 59-64 provide for).
\* Strip 1 is put in channel 1: the code compares the positions of two strips
\* in a list only when they are in one channel (line 78), so every other
\* timeline is one of these with its strips, or its two channels, renamed.
Init ==
    /\ channel \in {c \in [Strips -> Channels] : c[1] = 1}
    /\ \E shape \in [Strips -> Shapes] :
          /\ frame_start = [s \in Strips |-> shape[s][1]]
          /\ frame_final_end = [s \in Strips |-> shape[s][2]]
    /\ \E sel \in SUBSET Strips :
          /\ selected_sequences = SetToSeq(sel)
          /\ \E missing \in SUBSET (sel \cap {NumStrips}) :
                sequences = SetToSeq(Strips \ missing)
    /\ pc = "idle"
    /\ sorted_selected_strips = <<>>
    /\ all_strips_sorted_by_time = <<>>
    /\ pos = 0
    /\ processed_count = 0
    /\ report = "none"
    /\ result = "none"
    /\ phase = "first"
    /\ end0 = frame_final_end
    /\ extended = {}
    /\ first_end = frame_final_end
    /\ first_count = 0

\* ---------------------------------------------------------------- actions
\* Mutant: without the test of line 33 the run falls through to the summary
ExecuteNoSelectionFallsThrough ==
    /\ pc = "idle"
    /\ selected_sequences = <<>>
    /\ report' = "Script finished. No selected strips were extended."
    /\ result' = "FINISHED"
    /\ pc' = "done"
    /\ UNCHANGED <<channel, frame_start, frame_final_end, sequences,
                   selected_sequences, sorted_selected_strips,
                   all_strips_sorted_by_time, pos, processed_count, phase, end0,
                   extended, first_end, first_count>>

\* lines 33-35: nothing is selected
ExecuteNoSelection ==
    /\ pc = "idle"
    /\ selected_sequences = <<>>
    /\ report' = "No strips selected."
    /\ result' = "CANCELLED"
    /\ pc' = "done"
    /\ UNCHANGED <<channel, frame_start, frame_final_end, sequences,
                   selected_sequences, sorted_selected_strips,
                   all_strips_sorted_by_time, pos, processed_count, phase, end0,
                   extended, first_end, first_count>>

\* lines 40-52: the two sorted lists and the counter
ExecuteStart ==
    /\ pc = "idle"
    /\ selected_sequences # <<>>
    /\ sorted_selected_strips' \in
           SortedByChannelTime(channel, frame_start, selected_sequences)
    /\ all_strips_sorted_by_time' \in
           SortedByTime(channel, frame_start, sequences)
    /\ processed_count' = 0
    /\ pos' = 1
    /\ pc' = "loop"
    /\ UNCHANGED <<channel, frame_start, frame_final_end, sequences,
                   selected_sequences, report, result, phase, end0, extended,
                   first_end, first_count>>

\* line 55: the loop has a strip to process
InLoop == pc = "loop" /\ pos <= Len(sorted_selected_strips)

\* line 55
current_strip == sorted_selected_strips[pos]

\* line 60
current_index_in_all == Index(all_strips_sorted_by_time, current_strip)

\* lines 70-82
next_index ==
    FindNext(channel, frame_start, frame_final_end, all_strips_sorted_by_time,
             current_strip, current_index_in_all)

\* line 80
next_strip == all_strips_sorted_by_time[next_index]

\* line 92
num_gap_frames == GapFrames(frame_start, frame_final_end, current_strip, next_strip)

\* line 115
target_end_frame_int == TargetEnd(frame_start, next_strip)

\* line 118
new_duration_potential == NewDuration(frame_start, current_strip, target_end_frame_int)

\* line 55: the loop goes on to the next selected strip
Continue ==
    /\ pos' = pos + 1
    /\ UNCHANGED <<channel, frame_start, sequences, selected_sequences, pc,
                   sorted_selected_strips, all_strips_sorted_by_time, report,
                   result, phase, end0, first_end, first_count>>

\* Mutant: the ValueError of line 60 is not caught and ends the run
SkipMissingAborts ==
    /\ InLoop
    /\ current_index_in_all = 0
    /\ pc' = "done"
    /\ UNCHANGED <<channel, frame_start, frame_final_end, sequences,
                   selected_sequences, sorted_selected_strips,
                   all_strips_sorted_by_time, pos, processed_count, report,
                   result, phase, end0, extended, first_end, first_count>>

\* lines 59-64: the selected strip is not in the list of all strips
SkipMissing ==
    /\ InLoop
    /\ current_index_in_all = 0
    /\ Continue
    /\ UNCHANGED <<frame_final_end, processed_count, extended>>

\* lines 84, 147-149: no strip of the channel starts after this one's end
SkipNoNext ==
    /\ InLoop
    /\ current_index_in_all # 0
    /\ next_index = 0
    /\ Continue
    /\ UNCHANGED <<frame_final_end, processed_count, extended>>

\* lines 103, 140-145: the gap is not in (0, max_gap]
SkipGap ==
    /\ InLoop
    /\ current_index_in_all # 0
    /\ next_index # 0
    /\ ~GapInRange(num_gap_frames)
    /\ Continue
    /\ UNCHANGED <<frame_final_end, processed_count, extended>>

\* lines 122, 135-137: the new duration would not be positive
SkipDuration ==
    /\ InLoop
    /\ current_index_in_all # 0
    /\ next_index # 0
    /\ GapInRange(num_gap_frames)
    /\ ~(new_duration_potential > 0)
    /\ Continue
    /\ UNCHANGED <<frame_final_end, processed_count, extended>>

\* Mutant: the end of next_strip is set instead of the end of current_strip
ExtendNextStrip ==
    /\ InLoop
    /\ current_index_in_all # 0
    /\ next_index # 0
    /\ GapInRange(num_gap_frames)
    /\ new_duration_potential > 0
    /\ frame_final_end' =
           [frame_final_end EXCEPT ![next_strip] = target_end_frame_int]
    /\ processed_count' = processed_count + 1
    /\ extended' = extended \cup {current_strip}
    /\ Continue

\* lines 122-134: the end is set and the strip is counted
Extend ==
    /\ InLoop
    /\ current_index_in_all # 0
    /\ next_index # 0
    /\ GapInRange(num_gap_frames)
    /\ new_duration_potential > 0
    /\ frame_final_end' =
           [frame_final_end EXCEPT ![current_strip] = target_end_frame_int]
    /\ processed_count' = processed_count + 1
    /\ extended' = extended \cup {current_strip}
    /\ Continue

\* lines 151-161: the summary and the return value
Finish ==
    /\ pc = "loop"
    /\ pos > Len(sorted_selected_strips)
    /\ report' = IF processed_count > 0
                 THEN "Script finished. Extended N selected strip(s)."
                 ELSE "Script finished. No selected strips were extended."
    /\ result' = "FINISHED"
    /\ pc' = "done"
    /\ UNCHANGED <<channel, frame_start, frame_final_end, sequences,
                   selected_sequences, sorted_selected_strips,
                   all_strips_sorted_by_time, pos, processed_count, phase, end0,
                   extended, first_end, first_count>>

\* What every new invocation starts from (execute's locals are fresh)
FreshRun ==
    /\ pc' = "idle"
    /\ processed_count' = 0
    /\ report' = "none"
    /\ result' = "none"
    /\ sorted_selected_strips' = <<>>
    /\ all_strips_sorted_by_time' = <<>>
    /\ pos' = 0
    /\ extended' = {}

\* The operator is registered in the Strip > Transform menu (lines 15-17,
\* 165-174): the user invokes it again on the timeline the last run left, with
\* the selection unchanged.
InvokeAgain ==
    /\ pc = "done"
    /\ phase' = "again"
    /\ end0' = frame_final_end
    /\ first_end' = IF phase = "first" THEN frame_final_end ELSE first_end
    /\ first_count' = IF phase = "first" THEN processed_count ELSE first_count
    /\ FreshRun
    /\ UNCHANGED <<channel, frame_start, frame_final_end, sequences,
                   selected_sequences>>

Next ==
    \/ ExecuteNoSelection
    \/ ExecuteStart
    \/ SkipMissing
    \/ SkipNoNext
    \/ SkipGap
    \/ SkipDuration
    \/ Extend
    \/ Finish
    \/ InvokeAgain

Spec == Init /\ [][Next]_vars

\* The host registers the operator with 'UNDO' (line 17): the user undoes the
\* first run and invokes the operator once more on the same timeline with the
\* same selection.
UndoRedo ==
    /\ pc = "done"
    /\ phase = "first"
    /\ phase' = "redo"
    /\ frame_final_end' = end0
    /\ first_end' = frame_final_end
    /\ first_count' = processed_count
    /\ FreshRun
    /\ UNCHANGED <<channel, frame_start, sequences, selected_sequences, end0>>

\* As UndoRedo, but before invoking the operator again the user deselects the
\* strips that are not in context.sequences.
UndoDeselectMissing ==
    /\ pc = "done"
    /\ phase = "first"
    /\ \E k \in 1..Len(selected_sequences) :
          selected_sequences[k] \notin Range(sequences)
    /\ phase' = "without"
    /\ selected_sequences' =
           SelectSeq(selected_sequences, LAMBDA s : s \in Range(sequences))
    /\ frame_final_end' = end0
    /\ first_end' = frame_final_end
    /\ first_count' = processed_count
    /\ FreshRun
    /\ UNCHANGED <<channel, frame_start, sequences, end0>>

NextUndo ==
    \/ ExecuteNoSelection
    \/ ExecuteStart
    \/ SkipMissing
    \/ SkipNoNext
    \/ SkipGap
    \/ SkipDuration
    \/ Extend
    \/ Finish
    \/ UndoRedo
    \/ UndoDeselectMissing

SpecUndo == Init /\ [][NextUndo]_vars

\* The first run is undone and the loop of lines 55-149 is run again over the
\* same selection taken in an arbitrary order instead of the order of line 40.
UndoAnyOrder ==
    /\ pc = "done"
    /\ phase = "first"
    /\ phase' = "anyorder"
    /\ frame_final_end' = end0
    /\ first_end' = frame_final_end
    /\ first_count' = processed_count
    /\ FreshRun
    /\ UNCHANGED <<channel, frame_start, sequences, selected_sequences, end0>>

\* lines 40-52 with the order of the selected strips left open
ExecuteAnyOrder ==
    /\ pc = "idle"
    /\ phase = "anyorder"
    /\ selected_sequences # <<>>
    /\ sorted_selected_strips' \in Perms(selected_sequences)
    /\ all_strips_sorted_by_time' \in
           SortedByTime(channel, frame_start, sequences)
    /\ processed_count' = 0
    /\ pos' = 1
    /\ pc' = "loop"
    /\ UNCHANGED <<channel, frame_start, frame_final_end, sequences,
                   selected_sequences, report, result, phase, end0, extended,
                   first_end, first_count>>

NextOrder ==
    \/ ExecuteNoSelection
    \/ ExecuteStart
    \/ ExecuteAnyOrder
    \/ SkipMissing
    \/ SkipNoNext
    \/ SkipGap
    \/ SkipDuration
    \/ Extend
    \/ Finish
    \/ UndoAnyOrder

SpecOrder == Init /\ [][NextOrder]_vars

\* ================================================================= claims
Collection == Range(sequences)
Selection == Range(selected_sequences)

\* The list of lines 47-48 as the run that began with end0 built it
AllOrdered == StableSort(KeyStart(channel, frame_start), sequences)

\* The successor of s when the run began: its position in AllOrdered, or 0
SuccessorAtStart(s) ==
    FindNext(channel, frame_start, end0, AllOrdered, s, Index(AllOrdered, s))

\* s had a successor when the run began, with a gap g, 0 < g <= max_gap
EligibleAtStart(s) ==
    /\ s \in Selection \cap Collection
    /\ SuccessorAtStart(s) # 0
    /\ LET t == AllOrdered[SuccessorAtStart(s)]
           g == frame_start[t] - (end0[s] + 1)
       IN  g > 0 /\ g <= 5000

\* s was extended to the frame before its successor, and counted
ExtendedToSuccessor(s) ==
    /\ frame_final_end[s] = frame_start[AllOrdered[SuccessorAtStart(s)]] - 1
    /\ s \in extended
    /\ processed_count = Cardinality(extended)

C2_UnselectedUntouched ==
    \A s \in Strips \ Selection : frame_final_end[s] = end0[s]

C2_Witness ==
    /\ pc = "done"
    /\ extended # {}
    /\ \E s \in extended : \E t \in Collection \ Selection :
          channel[t] = channel[s] /\ frame_start[t] > end0[s]

\* The three conditions of C3 for the strip the loop is at, written out
C3_Conditions ==
    /\ current_index_in_all # 0
    /\ next_index # 0
    /\ LET t == all_strips_sorted_by_time[next_index]
           g == frame_start[t] - (frame_final_end[current_strip] + 1)
       IN  /\ channel[t] = channel[current_strip]
           /\ frame_start[t] > frame_final_end[current_strip]
           /\ g > 0 /\ g <= 5000
           /\ (frame_start[t] - 1) - frame_start[current_strip] + 1 > 0

\* C3: a step changes a strip's end only if the strip is the selected strip
\* the loop is at and a same-channel successor was found, the gap is in
\* (0, max_gap] and the new duration is positive; in every other case the
\* step of the loop leaves every end as it is and goes on to the next strip.
C3_MutatedOnlyIfAllThree ==
    [][/\ \A s \in Strips :
            frame_final_end'[s] # frame_final_end[s]
            => InLoop /\ s = current_strip /\ C3_Conditions
       /\ (InLoop /\ ~C3_Conditions)
            => /\ frame_final_end' = frame_final_end
               /\ processed_count' = processed_count
               /\ pc' = "loop"
               /\ pos' = pos + 1]_vars

C3_Witness ==
    /\ pc = "done"
    /\ extended # {}
    /\ \E s \in (Selection \cap Collection) \ extended :
          /\ SuccessorAtStart(s) # 0
          /\ frame_start[AllOrdered[SuccessorAtStart(s)]] - (end0[s] + 1) > 5000

\* C4: a second run on the timeline the first run left, with the same
\* selection, changes no end and counts nothing.
C4_SecondRunIdle ==
    (pc = "done" /\ phase = "again") =>
        /\ frame_final_end = end0
        /\ processed_count = 0
        /\ extended = {}

C4_Witness ==
    /\ pc = "done"
    /\ phase = "again"
    /\ first_count > 0
    /\ frame_final_end = first_end

\* C5: the count a finished run reports is the number of strips whose end
\* differs from the end they had when the run began; the summary says
\* "extended" when the count is positive and "no strips were extended" when it
\* is 0.
C5_CountIsNumberChanged ==
    (pc = "done" /\ result = "FINISHED") =>
        /\ processed_count =
               Cardinality({s \in Strips : frame_final_end[s] # end0[s]})
        /\ (processed_count > 0
               => report = "Script finished. Extended N selected strip(s).")
        /\ (processed_count = 0
               => report = "Script finished. No selected strips were extended.")

C5_Witness ==
    /\ pc = "done"
    /\ result = "FINISHED"
    /\ processed_count = 2
    /\ Cardinality(Selection) > 2

\* C6: with nothing selected the run reports "No strips selected.", changes
\* no end and counts nothing, whatever the collection holds.
C6_EmptySelection ==
    (pc = "done" /\ selected_sequences = <<>>) =>
        /\ report = "No strips selected."
        /\ result = "CANCELLED"
        /\ frame_final_end = end0
        /\ processed_count = 0
        /\ extended = {}

C6_Witness ==
    /\ pc = "done"
    /\ selected_sequences = <<>>
    /\ report = "No strips selected."
    /\ \E s, t \in Collection :
          /\ channel[s] = channel[t]
          /\ frame_start[t] - (frame_final_end[s] + 1) > 0
          /\ frame_start[t] - (frame_final_end[s] + 1) <= 5000

\* Every strip of the collection has start <= end and no two strips of a
\* channel share a frame
NonOverlapping(fe) ==
    /\ \A s \in Collection : frame_start[s] <= fe[s]
    /\ \A s, t \in Collection :
          (s # t /\ channel[s] = channel[t])
          => (fe[s] < frame_start[t] \/ fe[t] < frame_start[s])

\* C9: if the strips of the collection did not overlap when the run began,
\* they do not overlap in any state of the run, and an extended strip ends
\* before the start of every strip of its channel that starts after it.
C9_NonOverlapPreserved ==
    NonOverlapping(end0) =>
        /\ NonOverlapping(frame_final_end)
        /\ \A s \in extended : \A t \in Collection :
              (channel[t] = channel[s] /\ frame_start[t] > frame_start[s])
              => frame_final_end[s] < frame_start[t]

C9_Witness ==
    /\ pc = "done"
    /\ NonOverlapping(end0)
    /\ Cardinality(extended) = 2
    /\ \A s, t \in Collection : channel[s] = channel[t]

\* C7: a selected strip that is not in the collection is skipped and not
\* changed, and the run goes on: every strip ends as it ends, and the count is
\* what it is, when the run is made without that strip selected.
C7_MissingSkipped ==
    (pc = "done" /\ phase = "without") =>
        /\ frame_final_end = first_end
        /\ processed_count = first_count
        /\ \A s \in Strips \ Collection : first_end[s] = end0[s]

C7_Witness ==
    /\ pc = "done"
    /\ phase = "without"
    /\ first_count > 0
    /\ processed_count > 0
    /\ frame_final_end # end0

C10_OrderIndependent ==
    (pc = "done" /\ phase = "anyorder") =>
        /\ frame_final_end = first_end
        /\ processed_count = first_count

C10_Witness ==
    /\ pc = "done"
    /\ phase = "anyorder"
    /\ processed_count = 2
    /\ sorted_selected_strips
           # StableSort(KeyChannelStart(channel, frame_start), selected_sequences)
    /\ \A s, t \in extended : channel[s] = channel[t]
====
